---- MODULE Spec2Model ----
(***************************************************************************)
(* searchHouse spider: the sharded crawl loop of spider/spider.go.         *)
(*                                                                         *)
(* Strings are tuples of one-character strings, so that the regular        *)
(* expressions, the suffix trimming and the FNV-1a hash of the source act  *)
(* on characters as the code does.  The 64-bit integers of the code are    *)
(* kept at HashBits bits: hash() is FNV-1a reduced modulo 2^HashBits       *)
(* (which is exactly the low HashBits bits of the 64-bit hash) and the     *)
(* conversion to a signed int, the negation in abs and the remainder work  *)
(* in two's complement of that width.                                      *)
(***************************************************************************)
EXTENDS Integers, Sequences, FiniteSets, TLC

(***************************************************************************)
(* Bounds of the model.                                                    *)
(***************************************************************************)
HashBits == 8
MaxRestarts == 1
MaxLinksPerPage == 3

(***************************************************************************)
(* Characters.                                                             *)
(***************************************************************************)
Ascii ==
  <<
    " ", "!", "dquote", "#", "$", "%", "&", "'", "(", ")", "*", "+", ",", "-", ".", "/",
    "0", "1", "2", "3", "4", "5", "6", "7", "8", "9", ":", ";", "<", "=", ">", "?",
    "@", "A", "B", "C", "D", "E", "F", "G", "H", "I", "J", "K", "L", "M", "N", "O",
    "P", "Q", "R", "S", "T", "U", "V", "W", "X", "Y", "Z", "[", "bslash", "]", "^", "_",
    "bquote", "a", "b", "c", "d", "e", "f", "g", "h", "i", "j", "k", "l", "m", "n", "o",
    "p", "q", "r", "s", "t", "u", "v", "w", "x", "y", "z", "{", "|", "}", "~"
  >>

\* the byte of a character; the double quote, the backslash and the back
\* quote, which no string of the model contains, are the entries dquote,
\* bslash and bquote; tab and newline are the only control characters used
Ord(c) ==
  IF c = "\t" THEN 9
  ELSE IF c = "\n" THEN 10
  ELSE 31 + (CHOOSE i \in 1..Len(Ascii) : Ascii[i] = c)

Chars(lo, hi) == {Ascii[i - 31] : i \in lo..hi}

Digit == Chars(48, 57)
Upper == Chars(65, 90)
Lower == Chars(97, 122)
Alnum == Digit \cup Upper \cup Lower

\* unicode.IsSpace on the characters of the model
IsSpace(c) == c \in {" ", "\t", "\n"}

\* strings.ToLower
ToLowerChar(c) == IF c \in Upper THEN Ascii[Ord(c) + 32 - 31] ELSE c

ToLower(s) == [i \in 1..Len(s) |-> ToLowerChar(s[i])]

HasPrefix(s, p) == Len(s) >= Len(p) /\ SubSeq(s, 1, Len(p)) = p

HasSuffix(s, p) == Len(s) >= Len(p) /\ SubSeq(s, Len(s) - Len(p) + 1, Len(s)) = p

\* strings.TrimSuffix
TrimSuffix(s, p) == IF HasSuffix(s, p) THEN SubSeq(s, 1, Len(s) - Len(p)) ELSE s

AllIn(s, lo, hi, cls) == \A i \in lo..hi : s[i] \in cls

Https == <<"h", "t", "t", "p", "s", ":", "/", "/">>

(***************************************************************************)
(* urlValid: the two regular expressions (the host-eligibility probe       *)
(* isWordPressWebsite is applied by the actions, which own its cache).     *)
(***************************************************************************)
UrlHostClass == Alnum \cup {"-", "@", ":", "%", ".", "_", "+", "~", "#", "="}
UrlTldClass == Alnum \cup {"(", ")"}
UrlResourceClass == Alnum \cup {"-", "(", ")", "@", ":", "_", "+", "~", "?", "=", "/"}

\* ^(https://[-a-zA-Z0-9@:%._+~#=]{1,256}\.[a-zA-Z0-9()]{1,6}[-a-zA-Z0-9()@:_+~?=/]*)$
urlRe(s) ==
  /\ HasPrefix(s, Https)
  /\ \E d \in 10..Len(s) :
       /\ s[d] = "."
       /\ d - 9 <= 256
       /\ AllIn(s, 9, d - 1, UrlHostClass)
       /\ \E e \in (d + 1)..Len(s) :
            /\ e - d <= 6
            /\ AllIn(s, d + 1, e, UrlTldClass)
            /\ AllIn(s, e + 1, Len(s), UrlResourceClass)

Extensions ==
  {
    <<"c","s","s">>, <<"j","s">>, <<"b","m","p">>, <<"g","i","f">>,
    <<"j","p","g">>, <<"j","p","e","g">>, <<"i","c","o">>, <<"p","n","g">>,
    <<"t","i","f">>, <<"t","i","f","f">>, <<"m","i","d">>, <<"m","p","2">>,
    <<"m","p","3">>, <<"m","p","4">>, <<"p","p","s","x">>, <<"w","a","v">>,
    <<"a","v","i">>, <<"m","o","v">>, <<"m","p","e","g">>, <<"r","a","m">>,
    <<"m","4","v">>, <<"m","k","v">>, <<"o","g","g">>, <<"o","g","v">>,
    <<"p","d","f">>, <<"o","d","c">>, <<"s","a","s">>, <<"p","s">>,
    <<"e","p","s">>, <<"t","e","x">>, <<"p","p","t">>, <<"p","p","t","x">>,
    <<"d","o","c">>, <<"d","o","c","x">>, <<"x","l","s">>,
    <<"x","l","s","x">>, <<"n","a","m","e","s">>, <<"d","a","t","a">>,
    <<"d","a","t">>, <<"e","x","e">>, <<"b","z","2">>, <<"t","a","r">>,
    <<"m","s","i">>, <<"b","i","n">>, <<"7","z">>, <<"p","s","d">>,
    <<"d","m","g">>, <<"i","s","o">>, <<"e","p","u","b">>, <<"d","l","l">>,
    <<"c","n","f">>, <<"t","g","z">>, <<"s","h","a","1">>, <<"s","s">>,
    <<"s","c","m">>, <<"p","y">>, <<"r","k","t">>, <<"r">>, <<"c">>,
    <<"t","h","m","x">>, <<"m","s","o">>, <<"a","r","f","f">>,
    <<"r","t","f">>, <<"j","a","r">>, <<"c","s","v">>, <<"j","a","v","a">>,
    <<"t","x","t">>, <<"r","m">>, <<"s","m","i","l">>, <<"w","m","v">>,
    <<"s","w","f">>, <<"w","m","a">>, <<"z","i","p">>, <<"r","a","r">>,
    <<"g","z">>
  }

\* .*\.(?:css|js|...|gz)$  ("." of ".*" does not match a newline)
extRe(s) ==
  \E x \in Extensions :
     /\ HasSuffix(s, <<".">> \o x)
     /\ \A i \in 1..(Len(s) - Len(x) - 1) : s[i] # "\n"

\* the part of urlValid before the eligibility probe
urlPatternValid(url) == urlRe(url) /\ \A lower \in {ToLower(url)} : ~extRe(lower)

(***************************************************************************)
(* getHostname: url.Parse(u).Host for the https URLs urlRe lets through:   *)
(* the authority is what follows the scheme up to the first "/", "?" or    *)
(* "#", and the host is the authority after its last "@" (port included).  *)
(***************************************************************************)
AuthorityEnd(s) ==
  IF \E i \in 9..Len(s) : s[i] \in {"/", "?", "#"}
    THEN (CHOOSE i \in 9..Len(s) :
            /\ s[i] \in {"/", "?", "#"}
            /\ \A k \in 9..(i - 1) : s[k] \notin {"/", "?", "#"}) - 1
    ELSE Len(s)

getHostname(u) ==
  LET e == AuthorityEnd(u)
      ats == {i \in 9..e : u[i] = "@"}
      b == IF ats = {} THEN 9 ELSE (CHOOSE i \in ats : \A k \in ats : k <= i) + 1
  IN SubSeq(u, b, e)

(***************************************************************************)
(* findHostName: the first match of https://[^\s:/@]+\.[^\s:/@]+ .  Both   *)
(* classes are the same and contain ".", so a match at position p is       *)
(* "https://" followed by the whole maximal run of class characters,       *)
(* and it exists when that run has a "." that is neither its first nor     *)
(* its last character.                                                     *)
(***************************************************************************)
DomainClassExcluded == {" ", "\t", "\n", ":", "/", "@"}

RunEnd(s, b) ==
  IF \E i \in b..Len(s) : s[i] \in DomainClassExcluded
    THEN (CHOOSE i \in b..Len(s) :
            /\ s[i] \in DomainClassExcluded
            /\ \A k \in b..(i - 1) : s[k] \notin DomainClassExcluded) - 1
    ELSE Len(s)

DomainMatchAt(s, p) ==
  /\ p + 7 <= Len(s)
  /\ SubSeq(s, p, p + 7) = Https
  /\ \E d \in (p + 9)..(RunEnd(s, p + 8) - 1) : s[d] = "."

findHostName(url) ==
  LET starts == {p \in 1..Len(url) : DomainMatchAt(url, p)}
  IN IF starts = {} THEN <<>>
     ELSE LET p == CHOOSE q \in starts : \A r \in starts : q <= r
          IN SubSeq(url, p, RunEnd(url, p + 8))

(***************************************************************************)
(* hash: FNV-1a (hash/fnv New64a), kept at HashBits bits.                   *)
(***************************************************************************)
\* the low 16 bits of the FNV-1a offset basis 0xcbf29ce484222325
FnvOffsetLow == 8997
\* the FNV prime 0x100000001b3 modulo 2^16
FnvPrimeLow == 435

Modulus == 2 ^ HashBits

RECURSIVE Xor(_, _, _)
Xor(a, b, bits) ==
  IF bits = 0 THEN 0
  ELSE ((a + b) % 2) + 2 * Xor(a \div 2, b \div 2, bits - 1)

\* one round of FNV-1a: hash ^= byte; hash *= prime
FnvRound(h, byte) == (Xor(h, byte % Modulus, HashBits) * FnvPrimeLow) % Modulus

\* (a variable bound in a one-element set holds a value: the rounds, and the
\* string that is hashed, are then computed once)
RECURSIVE FnvFold(_, _, _)
FnvFold(h, s, i) ==
  IF i > Len(s) THEN h
  ELSE CHOOSE r \in {FnvFold(FnvRound(x, b), s, i + 1) :
                        x \in {h}, b \in {Ord(s[i])}} : TRUE

hash(str) == CHOOSE r \in {FnvFold(FnvOffsetLow % Modulus, s, 1) : s \in {str}} : TRUE

(***************************************************************************)
(* calcWebsiteToRoutineNum and abs.  int(uint64) reinterprets the bits,    *)
(* -val wraps, and % truncates toward zero (the sign of the dividend).     *)
(***************************************************************************)
ToInt(h) == IF h >= Modulus \div 2 THEN h - Modulus ELSE h

Wrap(v) == ToInt(v % Modulus)

abs(val) == IF val < 0 THEN Wrap(-val) ELSE val

GoRem(a, n) == IF a < 0 THEN -((-a) % n) ELSE a % n

\* a router that hashes the whole URL instead of its hostname
calcByWholeUrl(url, n) ==
  CHOOSE r \in {GoRem(abs(ToInt(h)), n) : h \in {hash(url)}} : TRUE

\* abs(int(hash(findHostName(url)))) % numRoutines, the hash taken once
calcWebsiteToRoutineNum(url, n) ==
  CHOOSE r \in {GoRem(abs(ToInt(h)), n) : h \in {hash(findHostName(url))}} : TRUE

(***************************************************************************)
(* validPage.                                                              *)
(***************************************************************************)
DoctypeUpper == <<"<", "!", "D", "O", "C", "T", "Y", "P", "E", " ", "h", "t", "m", "l">>
DoctypeLower == <<"<", "!", "d", "o", "c", "t", "y", "p", "e", " ", "h", "t", "m", "l">>

\* strings.TrimLeftFunc(body, unicode.IsSpace)
TrimLeftSpace(s) ==
  IF \A i \in 1..Len(s) : IsSpace(s[i]) THEN <<>>
  ELSE SubSeq(s, CHOOSE i \in 1..Len(s) :
                   ~IsSpace(s[i]) /\ \A k \in 1..(i - 1) : IsSpace(s[k]),
              Len(s))

validPage(body) ==
  LET trimmedBody == TrimLeftSpace(body)
  IN HasPrefix(trimmedBody, DoctypeUpper) \/ HasPrefix(trimmedBody, DoctypeLower)

(***************************************************************************)
(* The web the crawler runs against: what a GET of each URL serves when it *)
(* succeeds.  text is the start of the body, fps the fingerprint set       *)
(* common.NewWebPage computes for it, hrefs the anchors of the body in     *)
(* document order.  No href is empty.                                      *)
(***************************************************************************)
HostA == Https \o <<"a", ".", "f">>
HostL == Https \o <<"l", ".", "h">>
UrlA == HostA
UrlAx == HostA \o <<"/", "x">>
UrlAy == HostA \o <<"/", "y">>
UrlAz == HostA \o <<"/", "z">>
UrlL == HostL

Served ==
  [u \in {UrlA, UrlAx, UrlAy, UrlAz, UrlL} |->
     IF u = UrlA THEN
       [text |-> DoctypeUpper, fps |-> 1..10,
        hrefs |-> << <<"/", "x">>, HostL \o <<"/">>, <<"/", "d", ".", "p", "d", "f">> >>]
     ELSE IF u = UrlAx THEN
       [text |-> <<" ", "\n">> \o DoctypeLower, fps |-> 1..11,
        hrefs |-> << <<"/", "y">>, UrlA, <<"/", "z">> >>]
     ELSE IF u = UrlAy THEN
       [text |-> DoctypeUpper, fps |-> 1..10, hrefs |-> << << >> >>]
     ELSE IF u = UrlAz THEN
       [text |-> <<"<", "h", "t", "m", "l", ">">>, fps |-> {30}, hrefs |-> << >>]
     ELSE
       [text |-> DoctypeLower, fps |-> {20, 21},
        hrefs |-> << UrlA, <<"/", "d", ".", "P", "D", "F">> >>]]

\* the runs that are explored: the worker count and the seed list of NewSpider
Configs ==
  { [n |-> 2, seed |-> <<UrlA>>],
    [n |-> 2, seed |-> <<UrlL, UrlA>>],
    [n |-> 3, seed |-> <<UrlA>>] }

(***************************************************************************)
(* common.WebPage and common.Fingerprints (package common).                *)
(***************************************************************************)
\* common.NewWebPage(time, url, status, body)
NewWebPage(url, served) == [Url |-> url, Body |-> served.text, fps |-> served.fps]

\* page.FindAllAnchorHREFs(maxLinks): the first maxLinks anchors of the body
FindAllAnchorHREFs(served, maxLinks) ==
  SubSeq(served.hrefs, 1, IF Len(served.hrefs) < maxLinks THEN Len(served.hrefs) ELSE maxLinks)

\* wp.Similarity(page) > 0.9, the Jaccard index |A n B| / |A u B| of the two sets
SimilarityAbove09(a, b) ==
  /\ a.fps \cup b.fps # {}
  /\ 10 * Cardinality(a.fps \cap b.fps) > 9 * Cardinality(a.fps \cup b.fps)

\* common.NewFingerprints(3, 10000): an empty index, fingerprint -> set of pages
NewFingerprints == << >>

\* fp.InsertFingerprintsUsingWebpage(page): the page is added under each of
\* its fingerprints (of the page, the index keeps what duplicateExists reads)
InsertFingerprintsUsingWebpage(index, page) ==
  [h \in DOMAIN index \cup page.fps |->
     (IF h \in DOMAIN index THEN index[h] ELSE {}) \cup
     (IF h \in page.fps THEN {[Url |-> page.Url, fps |-> page.fps]} ELSE {})]

(***************************************************************************)
(* duplicateExists.                                                        *)
(***************************************************************************)
duplicateExists(fpGlobalSet, wp) ==
  \E h \in wp.fps :
     /\ h \in DOMAIN fpGlobalSet
     /\ \E page \in fpGlobalSet[h] : page.Url # wp.Url /\ SimilarityAbove09(wp, page)

(***************************************************************************)
(* Frontier (the persisted store): one queue of URLs per shard number.     *)
(***************************************************************************)
Rows(store, shard) == IF shard \in DOMAIN store THEN store[shard] ELSE << >>

\* frontier.Init(): opens the store and keeps the rows it holds
FrontierInit(store, n) ==
  [s \in DOMAIN store \cup (0..(n - 1)) |-> Rows(store, s)]

\* frontier.InsertPage(url, shard)
InsertPage(store, url, shard) ==
  [s \in DOMAIN store \cup {shard} |->
     IF s = shard THEN Append(Rows(store, s), url) ELSE store[s]]

\* frontier.PopURL(shard): the URL returned ("" when the shard has no row)
PopURLResult(store, shard) ==
  IF Rows(store, shard) = << >> THEN << >> ELSE Head(store[shard])

\* frontier.PopURL(shard): the store it leaves
PopURLStore(store, shard) ==
  IF Rows(store, shard) = << >> THEN store
  ELSE [store EXCEPT ![shard] = Tail(@)]

(***************************************************************************)
(* Page store: files is the page directory, file name -> what was          *)
(* written (the page's URL, and how many times the file was created).      *)
(***************************************************************************)
FileName(url) == hash(url)

\* pageDownloaded
pageDownloaded(dir, url) == FileName(url) \in DOMAIN dir

\* writeToDisk: os.Create truncates an existing file, then the page is written
writeToDisk(dir, w) ==
  [f \in DOMAIN dir \cup {FileName(w.Url)} |->
     IF f = FileName(w.Url)
       THEN [Url |-> w.Url,
             writes |-> IF f \in DOMAIN dir THEN dir[f].writes + 1 ELSE 1]
       ELSE dir[f]]

(***************************************************************************)
(* setSeed.                                                                *)
(***************************************************************************)
RECURSIVE setSeed(_, _, _, _)
setSeed(store, dir, urls, i) ==
  IF i > Len(urls) THEN store
  ELSE setSeed(IF ~pageDownloaded(dir, urls[i]) THEN InsertPage(store, urls[i], 0)
               ELSE store,
               dir, urls, i + 1)

(***************************************************************************)
(* urlValid and constructProperURLs, given the answers isWordPressWebsite  *)
(* gives (eligible: host -> BOOLEAN, its cache completed by the probes).   *)
(***************************************************************************)
urlValid(url, eligible) ==
  urlPatternValid(url) /\ eligible[getHostname(url)]

properURL(urlStr, hostName) ==
  IF urlStr[1] = "/" THEN hostName \o urlStr ELSE TrimSuffix(urlStr, <<"/">>)

\* line 154: urlStr[0] is an index out of range when urlStr is the empty
\* string; this is the position of the first such entry the loop comes to
\* (0 when there is none, or when line 149 returns before the loop)
firstEmpty(urls, root) ==
  IF findHostName(root) = << >> \/ \A i \in 1..Len(urls) : urls[i] # << >> THEN 0
  ELSE CHOOSE i \in 1..Len(urls) :
         urls[i] = << >> /\ \A k \in 1..(i - 1) : urls[k] # << >>

\* the hosts urlValid probes during constructProperURLs(urls, root)
probedHosts(urls, root) ==
  LET hostName == findHostName(root)
  IN IF hostName = << >> THEN {}
     ELSE {getHostname(u) :
             u \in {v \in {properURL(urls[i], hostName) : i \in 1..Len(urls)} :
                      urlPatternValid(v)}}

\* constructProperURLs without the urlValid test
constructWithoutValidation(urls, root, eligible) ==
  LET hostName == findHostName(root)
  IN IF hostName = << >> THEN {}
     ELSE {properURL(urls[i], hostName) : i \in 1..Len(urls)}

constructProperURLs(urls, root, eligible) ==
  LET hostName == findHostName(root)
  IN IF hostName = << >> THEN {}
     ELSE {u \in {properURL(urls[i], hostName) : i \in 1..Len(urls)} :
             urlValid(u, eligible)}

(***************************************************************************)
(* State.                                                                  *)
(***************************************************************************)
VARIABLES
  numRoutines,     \* SearchHouseSpider.numRoutines
  seed,            \* the seed list the process is started with
  frontier,        \* the persisted frontier store
  files,           \* the page directory
  wordpressSites,  \* the eligibility cache: host -> BOOLEAN
  pc,              \* per worker: where it is in the loop of Crawl
  cur,             \* per worker: currentUrl (<< >> when none)
  fp,              \* per worker: the fingerprint index Crawl creates
  anchors,         \* per worker: the anchors still to go through
  key,             \* per worker: the anchor of the current iteration
  downloaded,      \* per worker: what pageDownloaded(key) answered
  restarts,        \* how many times the process was stopped and started again
  fetchedBy,       \* history of this run: <<hostname, worker>> of every page GET
  routed,          \* history of this run: <<link, shard>> of every link inserted
  ioMu,            \* SearchHouseSpider.ioMu: TRUE when the mutex is locked
  body,            \* the body validPage is applied to on its own
  verdict          \* what validPage answered for body ("none" before the call)

vars ==
  <<numRoutines, seed, frontier, files, wordpressSites, pc, cur, fp, anchors,
    key, downloaded, restarts, fetchedBy, routed, ioMu, body, verdict>>

Routines == 0..(numRoutines - 1)

NoUrl == << >>

\* the page a worker holds after a successful GET and ReadAll of cur
PageOf(w) == NewWebPage(cur[w], Served[cur[w]])

\* a NewSpider that starts from an empty store
NewSpiderOnNewStore(n, urls, store, dir) == setSeed(FrontierInit(<< >>, n), dir, urls, 1)

\* NewSpider: frontier.Init() and setSeed(seed) on the store that is there
NewSpiderFrontier(n, urls, store, dir) == setSeed(FrontierInit(store, n), dir, urls, 1)

Init ==
  /\ restarts = 0
  /\ \E c \in Configs :
       /\ numRoutines = c.n
       /\ seed = c.seed
       /\ frontier = NewSpiderFrontier(c.n, c.seed, << >>, << >>)
       /\ pc = [w \in 0..(c.n - 1) |-> "poll"]
       /\ cur = [w \in 0..(c.n - 1) |-> NoUrl]
       /\ fp = [w \in 0..(c.n - 1) |-> NewFingerprints]
       /\ anchors = [w \in 0..(c.n - 1) |-> {}]
       /\ key = [w \in 0..(c.n - 1) |-> NoUrl]
       /\ downloaded = [w \in 0..(c.n - 1) |-> FALSE]
  /\ files = << >>
  /\ wordpressSites = << >>
  /\ fetchedBy = {}
  /\ routed = {}
  /\ ioMu = FALSE
  /\ body = << >>
  /\ verdict = "none"

(***************************************************************************)
(* The steps of Crawl(routineNum), one per access to shared state.         *)
(***************************************************************************)
\* a Poll that pops shard 0 whatever the worker
PollShardZero(w) ==
  /\ pc[w] = "poll"
  /\ LET currentUrl == PopURLResult(frontier, 0)
     IN /\ frontier' = PopURLStore(frontier, 0)
        /\ cur' = [cur EXCEPT ![w] = currentUrl]
        /\ pc' = [pc EXCEPT ![w] = IF currentUrl = NoUrl THEN "idle" ELSE "validate"]
  /\ UNCHANGED <<ioMu, body, verdict, numRoutines, seed, files, wordpressSites, fp, anchors, key,
                 downloaded, restarts, fetchedBy, routed>>

\* line 59: currentUrl := s.frontier.PopURL(routineNum)
Poll(w) ==
  /\ pc[w] = "poll"
  /\ LET currentUrl == PopURLResult(frontier, w)
     IN /\ frontier' = PopURLStore(frontier, w)
        /\ cur' = [cur EXCEPT ![w] = currentUrl]
        /\ pc' = [pc EXCEPT ![w] = IF currentUrl = NoUrl THEN "idle" ELSE "validate"]
  /\ UNCHANGED <<ioMu, body, verdict, numRoutines, seed, files, wordpressSites, fp, anchors, key,
                 downloaded, restarts, fetchedBy, routed>>

\* line 61: time.Sleep(time.Second); continue
Idle(w) ==
  /\ pc[w] = "idle"
  /\ pc' = [pc EXCEPT ![w] = "poll"]
  /\ UNCHANGED <<ioMu, body, verdict, numRoutines, seed, frontier, files, wordpressSites, cur, fp,
                 anchors, key, downloaded, restarts, fetchedBy, routed>>

\* line 64: if !s.urlValid(currentUrl) { continue }
Validate(w) ==
  /\ pc[w] = "validate"
  /\ LET probed == IF urlPatternValid(cur[w]) THEN {getHostname(cur[w])} ELSE {}
     IN \E net \in [probed \ DOMAIN wordpressSites -> BOOLEAN] :
          /\ wordpressSites' = wordpressSites @@ net
          /\ IF urlValid(cur[w], wordpressSites')
               THEN /\ pc' = [pc EXCEPT ![w] = "check"]
                    /\ cur' = cur
               ELSE /\ pc' = [pc EXCEPT ![w] = "poll"]
                    /\ cur' = [cur EXCEPT ![w] = NoUrl]
  /\ UNCHANGED <<ioMu, body, verdict, numRoutines, seed, frontier, files, fp, anchors, key,
                 downloaded, restarts, fetchedBy, routed>>

\* a CheckFetched that goes on to the GET whatever pageDownloaded answers
FetchUnchecked(w) ==
  /\ pc[w] = "check"
  /\ pc' = [pc EXCEPT ![w] = "fetch"]
  /\ UNCHANGED <<ioMu, body, verdict, numRoutines, seed, frontier, files, wordpressSites, cur, fp,
                 anchors, key, downloaded, restarts, fetchedBy, routed>>

\* line 67: if !s.pageDownloaded(currentUrl) { ... }
CheckFetched(w) ==
  /\ pc[w] = "check"
  /\ IF pageDownloaded(files, cur[w])
       THEN /\ pc' = [pc EXCEPT ![w] = "poll"]
            /\ cur' = [cur EXCEPT ![w] = NoUrl]
       ELSE /\ pc' = [pc EXCEPT ![w] = "fetch"]
            /\ cur' = cur
  /\ UNCHANGED <<ioMu, body, verdict, numRoutines, seed, frontier, files, wordpressSites, fp, anchors,
                 key, downloaded, restarts, fetchedBy, routed>>

\* a Fetch that puts the URL back into the worker's shard when the GET, the
\* status test or the read fails
FetchRequeue(w) ==
  /\ pc[w] = "fetch"
  /\ fetchedBy' = fetchedBy \cup {<<findHostName(cur[w]), w>>}
  /\ \E outcome \in {"error", "status", "read", "ok"} :
       IF outcome = "ok" /\ cur[w] \in DOMAIN Served
         THEN pc' = [pc EXCEPT ![w] = "dedup"] /\ frontier' = frontier
         ELSE /\ pc' = [pc EXCEPT ![w] = "sleep5"]
              /\ frontier' = InsertPage(frontier, cur[w], w)
  /\ UNCHANGED <<ioMu, body, verdict, numRoutines, seed, files, wordpressSites, cur, fp,
                 anchors, key, downloaded, restarts, routed>>

\* lines 68-72: http.Get, the status test and io.ReadAll
Fetch(w) ==
  /\ pc[w] = "fetch"
  /\ fetchedBy' = fetchedBy \cup {<<findHostName(cur[w]), w>>}
  /\ \E outcome \in {"error", "status", "read", "ok"} :
       IF outcome = "ok" /\ cur[w] \in DOMAIN Served
         THEN pc' = [pc EXCEPT ![w] = "dedup"]
         ELSE pc' = [pc EXCEPT ![w] = "sleep5"]
  /\ UNCHANGED <<ioMu, body, verdict, numRoutines, seed, frontier, files, wordpressSites, cur, fp,
                 anchors, key, downloaded, restarts, routed>>

\* a Dedup that admits the page in the step of the duplicate check
DedupAndAdmit(w) ==
  /\ pc[w] = "dedup"
  /\ IF ~validPage(PageOf(w).Body) \/ duplicateExists(fp[w], PageOf(w))
       THEN /\ pc' = [pc EXCEPT ![w] = "poll"]
            /\ cur' = [cur EXCEPT ![w] = NoUrl]
            /\ fp' = fp
       ELSE /\ pc' = [pc EXCEPT ![w] = "write"]
            /\ cur' = cur
            /\ fp' = [fp EXCEPT ![w] = InsertFingerprintsUsingWebpage(@, PageOf(w))]
  /\ UNCHANGED <<ioMu, body, verdict, numRoutines, seed, frontier, files, wordpressSites, anchors,
                 key, downloaded, restarts, fetchedBy, routed>>

\* a Dedup that tests validPage only
DedupValidOnly(w) ==
  /\ pc[w] = "dedup"
  /\ IF ~validPage(PageOf(w).Body)
       THEN /\ pc' = [pc EXCEPT ![w] = "poll"]
            /\ cur' = [cur EXCEPT ![w] = NoUrl]
       ELSE /\ pc' = [pc EXCEPT ![w] = "admit"]
            /\ cur' = cur
  /\ UNCHANGED <<ioMu, body, verdict, numRoutines, seed, frontier, files, wordpressSites, fp, anchors,
                 key, downloaded, restarts, fetchedBy, routed>>

\* line 74: if !s.validPage(page) || s.duplicateExists(fp, page) { continue }
Dedup(w) ==
  /\ pc[w] = "dedup"
  /\ IF ~validPage(PageOf(w).Body) \/ duplicateExists(fp[w], PageOf(w))
       THEN /\ pc' = [pc EXCEPT ![w] = "poll"]
            /\ cur' = [cur EXCEPT ![w] = NoUrl]
       ELSE /\ pc' = [pc EXCEPT ![w] = "admit"]
            /\ cur' = cur
  /\ UNCHANGED <<ioMu, body, verdict, numRoutines, seed, frontier, files, wordpressSites, fp, anchors,
                 key, downloaded, restarts, fetchedBy, routed>>

\* line 77: fp.InsertFingerprintsUsingWebpage(page)
Admit(w) ==
  /\ pc[w] = "admit"
  /\ fp' = [fp EXCEPT ![w] = InsertFingerprintsUsingWebpage(@, PageOf(w))]
  /\ pc' = [pc EXCEPT ![w] = "write"]
  /\ UNCHANGED <<ioMu, body, verdict, numRoutines, seed, frontier, files, wordpressSites, cur, anchors,
                 key, downloaded, restarts, fetchedBy, routed>>

\* line 78: s.writeToDisk(*page)
Write(w) ==
  /\ pc[w] = "write"
  /\ files' = writeToDisk(files, PageOf(w))
  /\ pc' = [pc EXCEPT ![w] = "extract"]
  /\ UNCHANGED <<ioMu, body, verdict, numRoutines, seed, frontier, wordpressSites, cur, fp, anchors,
                 key, downloaded, restarts, fetchedBy, routed>>

\* a panic in the goroutine of worker w: its deferred wg.Done() of line 56
\* runs, then the runtime ends the process and every other goroutine with it
Panicked(w) == [v \in Routines |-> IF v = w THEN "done" ELSE "exited"]

\* line 79: anchors := s.constructProperURLs(page.FindAllAnchorHREFs(...), currentUrl)
\* (constructProperURLs panics at line 154 on an empty href, after the
\* urlValid calls for the hrefs before it)
Extract(w) ==
  /\ pc[w] = "extract"
  /\ \E all \in {FindAllAnchorHREFs(Served[cur[w]], MaxLinksPerPage)} :
       \E stop \in {firstEmpty(all, cur[w])} :
         \E urls \in {IF stop = 0 THEN all ELSE SubSeq(all, 1, stop - 1)} :
           \E net \in [probedHosts(urls, cur[w]) \ DOMAIN wordpressSites -> BOOLEAN] :
             \E proper \in {constructProperURLs(urls, cur[w], wordpressSites @@ net)} :
               /\ wordpressSites' = wordpressSites @@ net
               /\ IF stop = 0
                    THEN /\ anchors' = [anchors EXCEPT ![w] = proper]
                         /\ pc' = [pc EXCEPT ![w] = "range"]
                    ELSE /\ anchors' = anchors
                         /\ pc' = Panicked(w)
  /\ UNCHANGED <<ioMu, body, verdict, numRoutines, seed, frontier, files, cur, fp, key, downloaded,
                 restarts, fetchedBy, routed>>

\* lines 80-81: for key := range anchors.m { if !s.pageDownloaded(key) {
\* (a map is ranged over in an unspecified order)
Range(w) ==
  /\ pc[w] = "range"
  /\ IF anchors[w] = {}
       THEN /\ pc' = [pc EXCEPT ![w] = "sleep5"]
            /\ anchors' = anchors
            /\ key' = key
            /\ downloaded' = downloaded
       ELSE \E k \in anchors[w] :
              /\ key' = [key EXCEPT ![w] = k]
              /\ anchors' = [anchors EXCEPT ![w] = @ \ {k}]
              /\ downloaded' = [downloaded EXCEPT ![w] = pageDownloaded(files, k)]
              /\ pc' = [pc EXCEPT ![w] = "insert"]
  /\ UNCHANGED <<ioMu, body, verdict, numRoutines, seed, frontier, files, wordpressSites, cur, fp,
                 restarts, fetchedBy, routed>>

\* line 82: s.frontier.InsertPage(key, s.calcWebsiteToRoutineNum(key))
Insert(w) ==
  /\ pc[w] = "insert"
  /\ IF ~downloaded[w]
       THEN \E shard \in {calcWebsiteToRoutineNum(key[w], numRoutines)} :
              /\ frontier' = InsertPage(frontier, key[w], shard)
              /\ routed' = routed \cup {<<key[w], shard>>}
       ELSE /\ frontier' = frontier
            /\ routed' = routed
  /\ key' = [key EXCEPT ![w] = NoUrl]
  /\ downloaded' = [downloaded EXCEPT ![w] = FALSE]
  /\ pc' = [pc EXCEPT ![w] = "range"]
  /\ UNCHANGED <<ioMu, body, verdict, numRoutines, seed, files, wordpressSites, cur, fp, anchors,
                 restarts, fetchedBy>>

\* line 87: time.Sleep(time.Second * 5)
Sleep5(w) ==
  /\ pc[w] = "sleep5"
  /\ pc' = [pc EXCEPT ![w] = "poll"]
  /\ cur' = [cur EXCEPT ![w] = NoUrl]
  /\ UNCHANGED <<ioMu, body, verdict, numRoutines, seed, frontier, files, wordpressSites, fp, anchors,
                 key, downloaded, restarts, fetchedBy, routed>>

(***************************************************************************)
(* The process is killed and started again with the same arguments on the  *)
(* same store: what was in memory is gone, NewSpider runs again.           *)
(***************************************************************************)
Restart ==
  /\ restarts < MaxRestarts
  /\ restarts' = restarts + 1
  /\ frontier' = NewSpiderFrontier(numRoutines, seed, frontier, files)
  /\ pc' = [w \in Routines |-> "poll"]
  /\ cur' = [w \in Routines |-> NoUrl]
  /\ fp' = [w \in Routines |-> NewFingerprints]
  /\ anchors' = [w \in Routines |-> {}]
  /\ key' = [w \in Routines |-> NoUrl]
  /\ downloaded' = [w \in Routines |-> FALSE]
  /\ wordpressSites' = << >>
  /\ fetchedBy' = {}
  /\ routed' = {}
  /\ UNCHANGED <<ioMu, body, verdict, numRoutines, seed, files>>

(***************************************************************************)
(* Crawl(routineNum): the loop of one worker.                              *)
(***************************************************************************)
Step(w) ==
  \/ Poll(w)
  \/ Idle(w)
  \/ Validate(w)
  \/ CheckFetched(w)
  \/ Fetch(w)
  \/ Dedup(w)
  \/ Admit(w)
  \/ Write(w)
  \/ Extract(w)
  \/ Range(w)
  \/ Insert(w)
  \/ Sleep5(w)

\* CrawlConcurrently runs Crawl(i) for every i < numRoutines
Run ==
  \/ \E w \in Routines : Poll(w)
  \/ \E w \in Routines : Idle(w)
  \/ \E w \in Routines : Validate(w)
  \/ \E w \in Routines : CheckFetched(w)
  \/ \E w \in Routines : Fetch(w)
  \/ \E w \in Routines : Dedup(w)
  \/ \E w \in Routines : Admit(w)
  \/ \E w \in Routines : Write(w)
  \/ \E w \in Routines : Extract(w)
  \/ \E w \in Routines : Range(w)
  \/ \E w \in Routines : Insert(w)
  \/ \E w \in Routines : Sleep5(w)

Next == Run \/ Restart

Spec == Init /\ [][Next]_vars

(***************************************************************************)
(* One run of the process (no restart), and that run under fair scheduling *)
(* of the goroutines: a worker that can take a step eventually takes it.   *)
(***************************************************************************)
WorkerIds == UNION {0..(c.n - 1) : c \in Configs}

RunSpec == Init /\ [][Run]_vars

FairSpec ==
  /\ RunSpec
  /\ \A w \in WorkerIds : WF_vars(w \in Routines /\ Step(w))

(***************************************************************************)
(* Properties.                                                             *)
(***************************************************************************)
ShardKeys(store) == DOMAIN store

Entries(store) == UNION {{store[s][i] : i \in 1..Len(store[s])} : s \in DOMAIN store}

\* how many pending entries of shard s hold url u
Count(store, s, u) ==
  Cardinality({i \in 1..Len(Rows(store, s)) : Rows(store, s)[i] = u})

PollStep(w) == pc[w] = "poll" /\ pc'[w] \in {"idle", "validate"}

RestartStep == restarts' # restarts

\* a step in which a goroutine panics and the process ends
PanicStep == \E w \in Routines : pc[w] # "done" /\ pc'[w] = "done"

\* the steps that end the running process, whatever its workers were doing
ProcessEnds == RestartStep \/ PanicStep

\* C1: for every hostname, at most one worker ever issues a page GET for a
\* URL of that hostname (seeds included)
C1_OneWorkerPerHost ==
  \A a \in fetchedBy : \A b \in fetchedBy : a[1] = b[1] => a[2] = b[2]

\* C2: a pop by worker w returns an entry pending in shard w and removes
\* exactly that one entry, leaving every other entry of every shard in place;
\* a pop of a shard with no pending entry returns the empty string and leaves
\* the frontier unchanged; no other step of a run removes an entry
C2_PopExactlyOnce ==
  [][ /\ \A w \in Routines :
           PollStep(w) =>
             IF Rows(frontier, w) = << >>
               THEN cur'[w] = NoUrl /\ frontier' = frontier
               ELSE /\ cur'[w] # NoUrl
                    /\ \A s \in ShardKeys(frontier) \cup ShardKeys(frontier') :
                         \A u \in Entries(frontier) \cup Entries(frontier') :
                           Count(frontier', s, u) =
                             Count(frontier, s, u) -
                               (IF s = w /\ u = cur'[w] THEN 1 ELSE 0)
      /\ (\A w \in Routines : ~PollStep(w)) =>
           \A s \in ShardKeys(frontier) : \A u \in Entries(frontier) :
             Count(frontier', s, u) >= Count(frontier, s, u)
    ]_vars

\* a worker other than worker 0 holds the URL it popped from its shard while
\* another shard has entries pending
C2_Witness ==
  \E w \in Routines :
     /\ w # 0
     /\ pc[w] = "validate"
     /\ cur[w] # NoUrl
     /\ \E s \in ShardKeys(frontier) : s # w /\ frontier[s] # << >>

\* C3: a restart (a new NewSpider on the same store, same worker count) keeps
\* every pending entry in its shard and in its place: each shard's queue after
\* the restart is the queue before it, followed in shard 0 only by the seeds
\* that are not downloaded; nothing that was popped comes back
C3_FrontierDurable ==
  [][ RestartStep =>
        \A s \in ShardKeys(frontier) \cup ShardKeys(frontier') :
          LET old == Rows(frontier, s)
              new == Rows(frontier', s)
          IN /\ Len(new) >= Len(old)
             /\ SubSeq(new, 1, Len(old)) = old
             /\ \A i \in (Len(old) + 1)..Len(new) :
                  /\ s = 0
                  /\ \E k \in 1..Len(seed) : seed[k] = new[i]
                  /\ ~pageDownloaded(files, new[i])
    ]_vars

\* the process has just been started again and a shard other than shard 0
\* holds an entry, which a worker inserted before the stop
C3_Witness ==
  /\ restarts > 0
  /\ routed = {}
  /\ \A w \in Routines : pc[w] = "poll"
  /\ \E s \in ShardKeys(frontier) : s # 0 /\ frontier[s] # << >>

\* C4: when the duplicate check of a fetched page answers true, the worker
\* drops the page: the page directory, every fingerprint index and the
\* frontier are unchanged and the worker is back at the top of its loop
C4_DuplicateDropped ==
  [][ \A w \in Routines :
        ( /\ pc[w] = "dedup"
          /\ pc'[w] # "dedup"
          /\ ~ProcessEnds
          /\ duplicateExists(fp[w], PageOf(w)) ) =>
        /\ files' = files
        /\ fp' = fp
        /\ frontier' = frontier
        /\ pc'[w] = "poll"
        /\ cur'[w] = NoUrl
    ]_vars

\* a worker holds a fetched page that its index finds to be a near-duplicate
\* of a page it admitted, which is in the page directory
C4_Witness ==
  \E w \in Routines :
     /\ pc[w] = "dedup"
     /\ duplicateExists(fp[w], PageOf(w))
     /\ \E h \in DOMAIN fp[w] : \E page \in fp[w][h] :
          /\ page.Url # cur[w]
          /\ pageDownloaded(files, page.Url)

\* the pages admitted to an index
Admitted(index) == UNION {index[h] : h \in DOMAIN index}

\* C5: when a worker checks a page B and some worker (itself or another) has
\* already admitted a page A with another URL and Jaccard similarity above
\* 0.9, the check declares B a duplicate and B is dropped
C5_SharedIndex ==
  [][ \A j \in Routines :
        ( /\ pc[j] = "dedup"
          /\ pc'[j] # "dedup"
          /\ ~ProcessEnds
          /\ \E i \in Routines : \E A \in Admitted(fp[i]) :
               A.Url # PageOf(j).Url /\ SimilarityAbove09(PageOf(j), A) ) =>
        pc'[j] = "poll"
    ]_vars

\* C6: every page file is written at most once
C6_WriteOnce == \A f \in DOMAIN files : files[f].writes <= 1

C8_ShardInRange ==
  /\ \A a \in routed : a[2] \in Routines
  /\ \A s \in ShardKeys(frontier) : s \in Routines

\* C9: a step of LinkDiscovery inserts its link into the frontier only when
\* the link passes urlValid and pageDownloaded answered false for it; every
\* link waiting in a worker's anchor set passes urlValid
C9_OnlyValidLinks ==
  [][ \A w \in Routines :
        /\ (pc[w] = "insert" /\ pc'[w] = "range" /\ frontier' # frontier) =>
             /\ urlValid(key[w], wordpressSites)
             /\ ~downloaded[w]
        /\ (pc[w] = "extract" /\ pc'[w] = "range") =>
             \A k \in anchors'[w] : urlValid(k, wordpressSites')
    ]_vars

\* a link of a page that also has a link to a .pdf file has been inserted
C9_Witness ==
  /\ \E a \in routed : a[1] = UrlAx
  /\ \A a \in routed : urlPatternValid(a[1])

\* C10: every URL pending in the frontier is eventually returned by a pop
C10_EventuallyPopped ==
  \A u \in DOMAIN Served :
     (u \in Entries(frontier)) ~>
        (\E w \in Routines : pc[w] = "validate" /\ cur[w] = u)

\* the places of the loop a worker is at after it issued the page GET of
\* this iteration (line 68) and before the sleep of line 87
AfterGet == {"dedup", "admit", "write", "extract", "range", "insert"}

\* C11: after a page GET a worker goes through the 5-second sleep before it
\* polls again: the step of the GET leads to the sleep or to the handling of
\* the response, and the handling of the response is left for the sleep only
C11_SleepAfterFetch ==
  [][ \A w \in Routines :
        ~ProcessEnds =>
          /\ (pc[w] = "fetch" /\ pc'[w] # "fetch") =>
               pc'[w] \in AfterGet \cup {"sleep5"}
          /\ (pc[w] \in AfterGet /\ pc'[w] \notin AfterGet) =>
               pc'[w] = "sleep5"
    ]_vars

\* C12: a worker comes to the GET of a popped URL only from the existence
\* check, with pageDownloaded false for the URL, and comes to the existence
\* check only from validation, with urlValid true for the URL; a URL that
\* fails validation or is already fetched is dropped and the worker is back
\* at the poll with no GET, no sleep and the page directory, the indexes and
\* the frontier unchanged
C12_ValidateThenCheckThenFetch ==
  [][ \A w \in Routines :
        ~ProcessEnds =>
          /\ (pc'[w] = "fetch" /\ pc[w] # "fetch") =>
               /\ pc[w] = "check"
               /\ ~pageDownloaded(files, cur[w])
               /\ urlValid(cur[w], wordpressSites)
               /\ cur'[w] = cur[w]
          /\ (pc'[w] = "check" /\ pc[w] # "check") =>
               /\ pc[w] = "validate"
               /\ urlValid(cur[w], wordpressSites')
               /\ cur'[w] = cur[w]
          /\ ( \/ pc[w] = "validate" /\ pc'[w] # "validate" /\ pc'[w] # "check"
               \/ pc[w] = "check" /\ pc'[w] # "check" /\ pc'[w] # "fetch" ) =>
               /\ pc'[w] = "poll"
               /\ cur'[w] = NoUrl
               /\ files' = files
               /\ fp' = fp
               /\ frontier' = frontier
               /\ fetchedBy' = fetchedBy
    ]_vars

\* a worker is at the existence check with a valid URL whose page file
\* exists, while another worker was let through to the GET of its URL
C12_Witness ==
  \E w \in Routines : \E v \in Routines :
     /\ pc[w] = "check"
     /\ pageDownloaded(files, cur[w])
     /\ pc[v] = "fetch"
     /\ ~pageDownloaded(files, cur[v])

\* the step of worker w is a failed fetch: the GET, the status test or the
\* read failed, or the body read is not valid HTML
FetchFailed(w) ==
  \/ pc[w] = "fetch" /\ pc'[w] = "sleep5"
  \/ pc[w] = "dedup" /\ pc'[w] # "dedup" /\ ~validPage(PageOf(w).Body)

MaxStoreWrites == 1

StoreUrls == {UrlA, UrlL}

\* how many times the file of url was created
Creations(dir, url) == IF FileName(url) \in DOMAIN dir THEN dir[FileName(url)].writes ELSE 0

\* the workers that were called to write url and have not created its file yet
Creating(url) == {v \in Routines : pc[v] \in {"wrLock", "wrCreate"} /\ cur[v] = url}

\* os.Create: the file is there and empty, whatever it held
osCreate(dir, url) ==
  [f \in DOMAIN dir \cup {FileName(url)} |->
     IF f = FileName(url) THEN [Url |-> NoUrl, writes |-> Creations(dir, url) + 1]
     ELSE dir[f]]

\* f.Write(w.Serialize())
fWrite(dir, url) == [dir EXCEPT ![FileName(url)].Url = url]

\* log.Fatalln: the process exits, every goroutine with it
Exited == [v \in Routines |-> "exited"]

StoreInit ==
  /\ restarts = 0
  /\ \E n \in {c.n : c \in Configs} :
       /\ numRoutines = n
       /\ seed = << >>
       /\ frontier = NewSpiderFrontier(n, << >>, << >>, << >>)
       /\ pc = [w \in 0..(n - 1) |-> "caller"]
       /\ cur = [w \in 0..(n - 1) |-> NoUrl]
       /\ fp = [w \in 0..(n - 1) |-> NewFingerprints]
       /\ anchors = [w \in 0..(n - 1) |-> {}]
       /\ key = [w \in 0..(n - 1) |-> NoUrl]
       /\ downloaded = [w \in 0..(n - 1) |-> FALSE]
  /\ files = << >>
  /\ wordpressSites = << >>
  /\ fetchedBy = {}
  /\ routed = {}
  /\ ioMu = FALSE
  /\ body = << >>
  /\ verdict = "none"

\* line 118: pageDownloaded(url) is called, fileName is computed
pageDownloadedCall(w) ==
  /\ pc[w] = "caller"
  /\ \E url \in StoreUrls : cur' = [cur EXCEPT ![w] = url]
  /\ pc' = [pc EXCEPT ![w] = "pdLock"]
  /\ UNCHANGED <<ioMu, files, downloaded>>
  /\ UNCHANGED <<numRoutines, seed, frontier, wordpressSites, fp, anchors, key,
                 restarts, fetchedBy, routed, body, verdict>>

\* a Lock that does not wait for the mutex to be free
pageDownloadedLockNoWait(w) ==
  /\ pc[w] = "pdLock"
  /\ ioMu' = TRUE
  /\ pc' = [pc EXCEPT ![w] = "pdStat"]
  /\ UNCHANGED <<cur, files, downloaded>>
  /\ UNCHANGED <<numRoutines, seed, frontier, wordpressSites, fp, anchors, key,
                 restarts, fetchedBy, routed, body, verdict>>

\* line 119: s.ioMu.Lock()
pageDownloadedLock(w) ==
  /\ pc[w] = "pdLock"
  /\ ~ioMu
  /\ ioMu' = TRUE
  /\ pc' = [pc EXCEPT ![w] = "pdStat"]
  /\ UNCHANGED <<cur, files, downloaded>>
  /\ UNCHANGED <<numRoutines, seed, frontier, wordpressSites, fp, anchors, key,
                 restarts, fetchedBy, routed, body, verdict>>

\* lines 121-124: exists, err := s.fileExists(fileName); log.Fatalln on an error
pageDownloadedStat(w) ==
  /\ pc[w] = "pdStat"
  /\ \E err \in BOOLEAN :
       IF err
         THEN pc' = Exited /\ downloaded' = downloaded
         ELSE /\ pc' = [pc EXCEPT ![w] = "pdReturn"]
              /\ downloaded' = [downloaded EXCEPT ![w] = pageDownloaded(files, cur[w])]
  /\ UNCHANGED <<ioMu, cur, files>>
  /\ UNCHANGED <<numRoutines, seed, frontier, wordpressSites, fp, anchors, key,
                 restarts, fetchedBy, routed, body, verdict>>

\* lines 120, 125: return exists, and the deferred s.ioMu.Unlock()
pageDownloadedReturn(w) ==
  /\ pc[w] = "pdReturn"
  /\ ioMu' = FALSE
  /\ pc' = [pc EXCEPT ![w] = "caller"]
  /\ cur' = [cur EXCEPT ![w] = NoUrl]
  /\ UNCHANGED <<files, downloaded>>
  /\ UNCHANGED <<numRoutines, seed, frontier, wordpressSites, fp, anchors, key,
                 restarts, fetchedBy, routed, body, verdict>>

\* line 93: writeToDisk(page) is called, fileName is computed
writeToDiskCall(w) ==
  /\ pc[w] = "caller"
  /\ \E url \in StoreUrls :
       /\ Creations(files, url) + Cardinality(Creating(url)) < MaxStoreWrites
       /\ cur' = [cur EXCEPT ![w] = url]
  /\ pc' = [pc EXCEPT ![w] = "wrLock"]
  /\ UNCHANGED <<ioMu, files, downloaded>>
  /\ UNCHANGED <<numRoutines, seed, frontier, wordpressSites, fp, anchors, key,
                 restarts, fetchedBy, routed, body, verdict>>

\* line 94: s.ioMu.Lock()
writeToDiskLock(w) ==
  /\ pc[w] = "wrLock"
  /\ ~ioMu
  /\ ioMu' = TRUE
  /\ pc' = [pc EXCEPT ![w] = "wrCreate"]
  /\ UNCHANGED <<cur, files, downloaded>>
  /\ UNCHANGED <<numRoutines, seed, frontier, wordpressSites, fp, anchors, key,
                 restarts, fetchedBy, routed, body, verdict>>

\* lines 96-99: f, err := os.Create(fileName); log.Fatalln on an error
writeToDiskCreate(w) ==
  /\ pc[w] = "wrCreate"
  /\ \E err \in BOOLEAN :
       IF err
         THEN pc' = Exited /\ files' = files
         ELSE /\ pc' = [pc EXCEPT ![w] = "wrWrite"]
              /\ files' = osCreate(files, cur[w])
  /\ UNCHANGED <<ioMu, cur, downloaded>>
  /\ UNCHANGED <<numRoutines, seed, frontier, wordpressSites, fp, anchors, key,
                 restarts, fetchedBy, routed, body, verdict>>

\* lines 101-104: f.Write(w.Serialize()); log.Fatalln on an error
writeToDiskWrite(w) ==
  /\ pc[w] = "wrWrite"
  /\ \E err \in BOOLEAN :
       IF err
         THEN pc' = Exited /\ files' = files
         ELSE /\ pc' = [pc EXCEPT ![w] = "wrReturn"]
              /\ files' = fWrite(files, cur[w])
  /\ UNCHANGED <<ioMu, cur, downloaded>>
  /\ UNCHANGED <<numRoutines, seed, frontier, wordpressSites, fp, anchors, key,
                 restarts, fetchedBy, routed, body, verdict>>

\* lines 95, 105: the function returns, and the deferred s.ioMu.Unlock()
writeToDiskReturn(w) ==
  /\ pc[w] = "wrReturn"
  /\ ioMu' = FALSE
  /\ pc' = [pc EXCEPT ![w] = "caller"]
  /\ cur' = [cur EXCEPT ![w] = NoUrl]
  /\ UNCHANGED <<files, downloaded>>
  /\ UNCHANGED <<numRoutines, seed, frontier, wordpressSites, fp, anchors, key,
                 restarts, fetchedBy, routed, body, verdict>>

StoreNext ==
  \/ \E w \in Routines : pageDownloadedCall(w)
  \/ \E w \in Routines : pageDownloadedLock(w)
  \/ \E w \in Routines : pageDownloadedStat(w)
  \/ \E w \in Routines : pageDownloadedReturn(w)
  \/ \E w \in Routines : writeToDiskCall(w)
  \/ \E w \in Routines : writeToDiskLock(w)
  \/ \E w \in Routines : writeToDiskCreate(w)
  \/ \E w \in Routines : writeToDiskWrite(w)
  \/ \E w \in Routines : writeToDiskReturn(w)

StoreSpec == StoreInit /\ [][StoreNext]_vars

\* the positions at which a worker is inside the existence check of
\* pageDownloaded or the create-and-write of writeToDisk
InStore == {"pdStat", "pdReturn", "wrCreate", "wrWrite", "wrReturn"}

\* C15: access to the page store is mutually exclusive: at most one worker is
\* inside pageDownloaded's existence check or writeToDisk's create-and-write,
\* the mutex is locked exactly while a worker is inside, and so it is free
\* again after every return of either operation.
C15_StoreMutualExclusion ==
  /\ Cardinality({w \in Routines : pc[w] \in InStore}) <= 1
  /\ (\A w \in Routines : pc[w] # "exited") =>
       (ioMu <=> \E w \in Routines : pc[w] \in InStore)

\* a worker is writing a page while another waits at Lock for the same file,
\* and an earlier writeToDisk has returned and left its file
C15_Witness ==
  \E w \in Routines : \E v \in Routines \ {w} :
    /\ pc[w] = "wrWrite"
    /\ pc[v] \in {"pdLock", "wrLock"}
    /\ cur[v] = cur[w]
    /\ \E u \in StoreUrls \ {cur[w]} :
         pageDownloaded(files, u) /\ files[FileName(u)].Url = u

(***************************************************************************)
(* validPage on its own: a body is drawn, validPage is applied to it.      *)
(* The bodies are a run of white space of at most MaxLead characters, a    *)
(* spelling of the document type declaration in any mix of upper and       *)
(* lower case (or something that is no declaration), and the rest.         *)
(***************************************************************************)
MaxLead == 2

\* the spellings of s in upper and lower case: each letter either way
ToUpperChar(c) == IF c \in Lower THEN Ascii[Ord(c) - 32 - 31] ELSE c

Spellings(s) ==
  {[i \in 1..Len(s) |-> IF up[i] THEN ToUpperChar(s[i]) ELSE ToLowerChar(s[i])] :
     up \in [1..Len(s) -> BOOLEAN]}

Leads == UNION {[1..n -> {" ", "\n"}] : n \in 0..MaxLead}

Declarations ==
  {<<"<", "!">> \o d \o <<" ">> \o h :
     d \in Spellings(<<"d", "o", "c", "t", "y", "p", "e">>),
     h \in {<<"h", "t", "m", "l">>, <<"H", "t", "m", "l">>, <<"H", "T", "M", "L">>}}

NoDeclarations ==
  { << >>,
    <<"<", "h", "t", "m", "l", ">">>,
    <<"<", "!", "d", "o", "c", "t", "y", "p", "e", " ", "h", "t", "m">>,
    <<"<", "!", "D", "O", "C", "T", "Y", "P", "E", "h", "t", "m", "l">>,
    <<"x">> \o DoctypeLower,
    <<"<", "!", "-", "-">> \o DoctypeUpper }

Bodies ==
  {lead \o start \o rest :
     lead \in Leads, start \in Declarations \cup NoDeclarations,
     rest \in {<< >>, <<">", "\n", "<", "p", ">">>}}

ValidPageInit ==
  /\ body \in Bodies
  /\ verdict = "none"
  /\ restarts = 0
  /\ numRoutines = 1
  /\ seed = << >>
  /\ frontier = << >>
  /\ pc = [w \in {0} |-> "caller"]
  /\ cur = [w \in {0} |-> NoUrl]
  /\ fp = [w \in {0} |-> NewFingerprints]
  /\ anchors = [w \in {0} |-> {}]
  /\ key = [w \in {0} |-> NoUrl]
  /\ downloaded = [w \in {0} |-> FALSE]
  /\ files = << >>
  /\ wordpressSites = << >>
  /\ fetchedBy = {}
  /\ routed = {}
  /\ ioMu = FALSE

\* lines 216-219: validPage(wp) is called with a page of this body
ApplyValidPage ==
  /\ verdict = "none"
  /\ verdict' = IF validPage(body) THEN "accept" ELSE "reject"
  /\ UNCHANGED <<body, ioMu, numRoutines, seed, frontier, files, wordpressSites, pc,
                 cur, fp, anchors, key, downloaded, restarts, fetchedBy, routed>>

ValidPageSpec == ValidPageInit /\ [][ApplyValidPage]_vars

\* C17: validPage accepts a body exactly when the body, with its leading
\* white space stripped, begins with the document type declaration
\* "<!doctype html" compared without regard to case; every other body is
\* rejected.
C17_DoctypeAnyCase ==
  verdict # "none" =>
    (verdict = "accept" <=> HasPrefix(ToLower(TrimLeftSpace(body)), DoctypeLower))

(***************************************************************************)
(* The worker loop has no way out, and link discovery does not stop it.    *)
(***************************************************************************)
\* the positions of the loop of Crawl
LoopStates ==
  {"poll", "idle", "validate", "check", "fetch", "dedup", "admit", "write",
   "extract", "range", "insert", "sleep5"}

\* C16: a worker has no terminal state: (no page store operation fails
\* fatally in these runs) every worker is at every moment at some position
\* of its loop; none reaches Done, where the deferred wg.Done() has run and
\* CrawlConcurrently can return.
C16_NoTerminalState == \A w \in Routines : pc[w] \in LoopStates

\* C18: link discovery never stops the worker: whatever raw hrefs the page
\* holds, an empty one included, the step that builds the proper URLs leaves
\* the worker with a set of valid URLs, at the range loop that leads to the
\* 5-second sleep and the next Poll.
C18_LinkDiscoveryGoesOn ==
  [][ \A w \in Routines :
        (pc[w] = "extract" /\ pc'[w] # "extract" /\ ~RestartStep) =>
          /\ pc'[w] = "range"
          /\ \A u \in anchors'[w] : urlValid(u, wordpressSites') ]_vars

====
